---- MODULE Spec2Model ----
(***************************************************************************)
(* Model of orquesta/utils/yml.py: safe_load and the mapping constructor   *)
(* UniqueKeyLoader.construct_mapping that the module registers for the     *)
(* default mapping tag of the YAML SafeLoader.                             *)
(*                                                                         *)
(* A call of safe_load is a small machine: the document is composed into   *)
(* a node graph, construct_document builds the native value of the root    *)
(* node with a stack of constructor frames, the generators left behind by  *)
(* the lazily filled containers are drained, and any exception is turned   *)
(* into a ValueError by the except clause of safe_load.  Several calls     *)
(* run interleaved, one step at a time.                                    *)
(***************************************************************************)
EXTENDS Integers, Sequences, FiniteSets, TLC

\* Number of calls of safe_load that run interleaved.
NumCalls == 2

Calls == 1..NumCalls

(***************************************************************************)
(* Native values.  A scalar carries its type, and its string or its        *)
(* number; a container is a reference to the object built for a node.      *)
(***************************************************************************)
Val(t, s, n) == [t |-> t, s |-> s, n |-> n]

None == Val("none", "", 0)

Ref(t, n) == Val(t, "", n)

Containers == {"dict", "list", "set"}

Numbers == {"int", "float", "bool"}

\* str(value)
StrOfVal(v) ==
    CASE v.t = "str" -> v.s
      [] v.t = "int" -> ToString(v.n)
      [] v.t = "bool" -> IF v.n = 1 THEN "True" ELSE "False"
      [] v.t = "float" -> IF v.n = 1 THEN "1.0" ELSE "0.0"
      [] OTHER -> "None"

\* Keys compared by their text.
PyEqByText(a, b) == StrOfVal(a) = StrOfVal(b)

\* Keys compared with their type: 1 is not True.
PyEqSameType(a, b) == a = b

\* Python's ==, which dict lookup uses: 1 == 1.0 == True, "1" != 1.
PyEq(a, b) ==
    IF a.t \in Numbers /\ b.t \in Numbers
    THEN a.n = b.n
    ELSE a.t = b.t /\ a.s = b.s /\ a.n = b.n

\* A hash() that never raises.
HashableAlways(v) == TRUE

\* hash(key) raises TypeError for list, dict and set.
Hashable(v) == v.t \notin Containers

\* The name of the type in the TypeError of hash().
TypeName(v) == v.t

(***************************************************************************)
(* Objects on the heap: a dict keeps keys and vals in insertion order, a   *)
(* list keeps its items in vals, a set keeps its members in keys.          *)
(***************************************************************************)
Obj(t, keys, vals) == [t |-> t, keys |-> keys, vals |-> vals]

EmptyObj(t) == Obj(t, <<>>, <<>>)

\* key in mapping
KeyIn(o, k) == \E j \in 1..Len(o.keys) : PyEq(o.keys[j], k)

\* mapping[key] = value: an equal key keeps its place and its key object and
\* gets the new value, a new key is appended.
DictSet(o, k, v) ==
    IF KeyIn(o, k)
    THEN LET j == CHOOSE x \in 1..Len(o.keys) :
                      /\ PyEq(o.keys[x], k)
                      /\ \A y \in 1..(x - 1) : ~PyEq(o.keys[y], k)
         IN  [o EXCEPT !.vals[j] = v]
    ELSE [o EXCEPT !.keys = Append(@, k), !.vals = Append(@, v)]

\* set.add(key)
SetAdd(o, k) == IF KeyIn(o, k) THEN o ELSE [o EXCEPT !.keys = Append(@, k)]

RECURSIVE UpdateFrom(_, _, _)
\* data.update(value) of a dict or a set from the pairs of a dict, from pair j on
UpdateFrom(data, value, j) ==
    IF j > Len(value.keys)
    THEN data
    ELSE UpdateFrom(IF data.t = "set"
                    THEN SetAdd(data, value.keys[j])
                    ELSE DictSet(data, value.keys[j], value.vals[j]),
                    value, j + 1)

(***************************************************************************)
(* Nodes of a composed document.  start_mark is the offset of the node in  *)
(* the text (from 1); a block mapping starts where its first key starts.   *)
(***************************************************************************)
DEFAULT_MAPPING_TAG == "tag:yaml.org,2002:map"

SeqTag == "tag:yaml.org,2002:seq"

SetTag == "tag:yaml.org,2002:set"

StrTag == "tag:yaml.org,2002:str"

IntTag == "tag:yaml.org,2002:int"

FloatTag == "tag:yaml.org,2002:float"

BoolTag == "tag:yaml.org,2002:bool"

NullTag == "tag:yaml.org,2002:null"

MergeTag == "tag:yaml.org,2002:merge"

ScalarNode(tag, value, mark) ==
    [id |-> "scalar", tag |-> tag, value |-> value, style |-> "",
     items |-> <<>>, pairs |-> <<>>, start_mark |-> mark]

SequenceNode(tag, items, mark) ==
    [id |-> "sequence", tag |-> tag, value |-> "", style |-> "",
     items |-> items, pairs |-> <<>>, start_mark |-> mark]

MappingNode(tag, pairs, mark) ==
    [id |-> "mapping", tag |-> tag, value |-> "", style |-> "",
     items |-> <<>>, pairs |-> pairs, start_mark |-> mark]

StrNode(value, mark) == ScalarNode(StrTag, value, mark)

\* A double-quoted scalar: value is the text between the quotes, and the
\* resolver makes it a string whatever it spells.
QuotedNode(value, mark) == [StrNode(value, mark) EXCEPT !.style = "\""]

IntNode(value, mark) == ScalarNode(IntTag, value, mark)

MapNode(pairs, mark) == MappingNode(DEFAULT_MAPPING_TAG, pairs, mark)

(***************************************************************************)
(* Exceptions.  context and problem are texts (sequences of pieces, <<>>   *)
(* for None), the marks are offsets (0 for None).                          *)
(***************************************************************************)
Exc(type, context, context_mark, problem, problem_mark) ==
    [type |-> type, context |-> context, context_mark |-> context_mark,
     problem |-> problem, problem_mark |-> problem_mark]

NoExc == Exc("", <<>>, 0, <<>>, 0)

ConstructorError(context, context_mark, problem, problem_mark) ==
    Exc("ConstructorError", context, context_mark, problem, problem_mark)

\* str(mark)
MarkStr(m) == <<"  in \"<unicode string>\", offset ", ToString(m)>>

RECURSIVE Join(_)
\* "\n".join(lines)
Join(lines) ==
    IF lines = <<>> THEN <<>>
    ELSE IF Len(lines) = 1 THEN lines[1]
    ELSE lines[1] \o <<"\n">> \o Join(Tail(lines))

\* str(e) of a MarkedYAMLError; an exception of another type has its
\* message in problem and no marks.
StrOfError(e) ==
    LET l1 == IF e.context # <<>> THEN <<e.context>> ELSE <<>>
        l2 == IF /\ e.context_mark # 0
                 /\ \/ e.problem = <<>>
                    \/ e.problem_mark = 0
                    \/ e.context_mark # e.problem_mark
              THEN <<MarkStr(e.context_mark)>> ELSE <<>>
        l3 == IF e.problem # <<>> THEN <<e.problem>> ELSE <<>>
        l4 == IF e.problem_mark # 0 THEN <<MarkStr(e.problem_mark)>> ELSE <<>>
    IN  Join(l1 \o l2 \o l3 \o l4)

(***************************************************************************)
(* The documents.  nodes is the composed node graph, root the root node    *)
(* (0 for an empty stream), error the exception of the reader, scanner,    *)
(* parser or composer (NoExc when the text composes).                      *)
(***************************************************************************)
Doc(nodes, root) == [nodes |-> nodes, root |-> root, error |-> NoExc]

\* a: 1
\* b: 2
DocFlat ==
    Doc(<<MapNode(<<<<2, 3>>, <<4, 5>>>>, 1), StrNode("a", 1), IntNode("1", 4),
          StrNode("b", 6), IntNode("2", 9)>>, 1)

\* a: 1
\* a: 2
DocDup ==
    Doc(<<MapNode(<<<<2, 3>>, <<4, 5>>>>, 1), StrNode("a", 1), IntNode("1", 4),
          StrNode("a", 6), IntNode("2", 9)>>, 1)

\* a: {a: 1}
\* b: {a: 2}
DocSameKeyElsewhere ==
    Doc(<<MapNode(<<<<2, 3>>, <<6, 7>>>>, 1),
          StrNode("a", 1), MapNode(<<<<4, 5>>>>, 4), StrNode("a", 5), IntNode("1", 8),
          StrNode("b", 11), MapNode(<<<<8, 9>>>>, 14), StrNode("a", 15), IntNode("2", 18)>>, 1)

\* a: {b: 1, b: 2}
\* c: 3
DocNestedDup ==
    Doc(<<MapNode(<<<<2, 3>>, <<8, 9>>>>, 1),
          StrNode("a", 1), MapNode(<<<<4, 5>>, <<6, 7>>>>, 4),
          StrNode("b", 5), IntNode("1", 8), StrNode("b", 11), IntNode("2", 14),
          StrNode("c", 17), IntNode("3", 20)>>, 1)

\* x: [{a: 1, a: 2}]
\* y: 1
DocDupInSequence ==
    Doc(<<MapNode(<<<<2, 3>>, <<9, 10>>>>, 1),
          StrNode("x", 1), SequenceNode(SeqTag, <<4>>, 4),
          MapNode(<<<<5, 6>>, <<7, 8>>>>, 5),
          StrNode("a", 6), IntNode("1", 9), StrNode("a", 12), IntNode("2", 15),
          StrNode("y", 19), IntNode("1", 22)>>, 1)

\* a: [1, {b: 2}]
\* c: 3
DocSequenceValue ==
    Doc(<<MapNode(<<<<2, 3>>, <<8, 9>>>>, 1),
          StrNode("a", 1), SequenceNode(SeqTag, <<4, 5>>, 4),
          IntNode("1", 5), MapNode(<<<<6, 7>>>>, 8), StrNode("b", 9), IntNode("2", 12),
          StrNode("c", 16), IntNode("3", 19)>>, 1)

\* [a]: 1
DocSequenceKey ==
    Doc(<<MapNode(<<<<2, 4>>>>, 1), SequenceNode(SeqTag, <<3>>, 1), StrNode("a", 2),
          IntNode("1", 6)>>, 1)

\* b: 0
\* {a: 1}: 2
DocMappingKey ==
    Doc(<<MapNode(<<<<2, 3>>, <<4, 7>>>>, 1), StrNode("b", 1), IntNode("0", 4),
          MapNode(<<<<5, 6>>>>, 6), StrNode("a", 7), IntNode("1", 10), IntNode("2", 14)>>, 1)

\* [a]: 1
\* b: 2
\* b: 3
DocUnhashableThenDup ==
    Doc(<<MapNode(<<<<2, 4>>, <<5, 6>>, <<7, 8>>>>, 1),
          SequenceNode(SeqTag, <<3>>, 1), StrNode("a", 2), IntNode("1", 6),
          StrNode("b", 8), IntNode("2", 11), StrNode("b", 13), IntNode("3", 16)>>, 1)

\* b: 1
\* b: {c: 1, c: 2}
\* [a]: 3
DocDupThenUnhashable ==
    Doc(<<MapNode(<<<<2, 3>>, <<4, 5>>, <<10, 12>>>>, 1),
          StrNode("b", 1), IntNode("1", 4),
          StrNode("b", 6), MapNode(<<<<6, 7>>, <<8, 9>>>>, 9),
          StrNode("c", 10), IntNode("1", 13), StrNode("c", 16), IntNode("2", 19),
          SequenceNode(SeqTag, <<11>>, 22), StrNode("a", 23), IntNode("3", 27)>>, 1)

\* 1: a
\* "1": b
DocSameTextOtherValue ==
    Doc(<<MapNode(<<<<2, 3>>, <<4, 5>>>>, 1), IntNode("1", 1), StrNode("a", 4),
          QuotedNode("1", 6), StrNode("b", 11)>>, 1)

\* a: 1
\* "a": 2
DocPlainAndQuoted ==
    Doc(<<MapNode(<<<<2, 3>>, <<4, 5>>>>, 1), StrNode("a", 1), IntNode("1", 4),
          QuotedNode("a", 6), IntNode("2", 11)>>, 1)

\* 1: a
\* true: b
DocNumberAndBoolean ==
    Doc(<<MapNode(<<<<2, 3>>, <<4, 5>>>>, 1), IntNode("1", 1), StrNode("a", 4),
          ScalarNode(BoolTag, "true", 6), StrNode("b", 12)>>, 1)

\* 1: a
\* 0x1: b
\* 1.0: c
DocNumberSpellings ==
    Doc(<<MapNode(<<<<2, 3>>, <<4, 5>>, <<6, 7>>>>, 1), IntNode("1", 1), StrNode("a", 4),
          IntNode("0x1", 6), StrNode("b", 11),
          ScalarNode(FloatTag, "1.0", 13), StrNode("c", 18)>>, 1)

\* 1: a
\* false: b
\* ~: c
DocScalarKeys ==
    Doc(<<MapNode(<<<<2, 3>>, <<4, 5>>, <<6, 7>>>>, 1), IntNode("1", 1), StrNode("a", 4),
          ScalarNode(BoolTag, "false", 6), StrNode("b", 13),
          ScalarNode(NullTag, "~", 15), StrNode("c", 18)>>, 1)

\* a: !!map foo
DocNotAMapping ==
    Doc(<<MapNode(<<<<2, 3>>>>, 1), StrNode("a", 1),
          ScalarNode(DEFAULT_MAPPING_TAG, "foo", 4)>>, 1)

\* !!set {a, a}
DocSetDup ==
    Doc(<<MappingNode(SetTag, <<<<2, 3>>, <<4, 5>>>>, 1),
          StrNode("a", 8), ScalarNode(NullTag, "", 9),
          StrNode("a", 11), ScalarNode(NullTag, "", 12)>>, 1)

\* x: &m {a: 1}
\* y: *m
DocAlias ==
    Doc(<<MapNode(<<<<2, 3>>, <<6, 3>>>>, 1), StrNode("x", 1),
          MapNode(<<<<4, 5>>>>, 4), StrNode("a", 8), IntNode("1", 11),
          StrNode("y", 14)>>, 1)

\* &r {a: *r}
DocRecursive ==
    Doc(<<MapNode(<<<<2, 1>>>>, 1), StrNode("a", 5)>>, 1)

\* <<: {a: 1}
\* b: 2
DocMergeKey ==
    Doc(<<MapNode(<<<<2, 3>>, <<6, 7>>>>, 1), ScalarNode(MergeTag, "<<", 1),
          MapNode(<<<<4, 5>>>>, 5), StrNode("a", 6), IntNode("1", 9),
          StrNode("b", 12), IntNode("2", 15)>>, 1)

\* the empty text
DocEmpty == Doc(<<>>, 0)

\* a: [1, 2
DocSyntaxError ==
    [nodes |-> <<>>, root |-> 0,
     error |-> Exc("ParserError", <<"while parsing a flow sequence">>, 4,
                   <<"expected ',' or ']', but got '<stream end>'">>, 9)]

\* None instead of a text
DocNotText ==
    [nodes |-> <<>>, root |-> 0,
     error |-> Exc("AttributeError", <<>>, 0,
                   <<"'NoneType' object has no attribute 'read'">>, 0)]

Docs ==
    <<DocFlat, DocDup, DocSameKeyElsewhere, DocNestedDup, DocDupInSequence,
      DocSequenceValue, DocSequenceKey, DocMappingKey, DocUnhashableThenDup,
      DocDupThenUnhashable, DocSameTextOtherValue, DocPlainAndQuoted,
      DocNumberAndBoolean,
      DocNumberSpellings, DocScalarKeys, DocNotAMapping, DocSetDup, DocAlias,
      DocRecursive, DocMergeKey, DocEmpty, DocSyntaxError, DocNotText>>

DocIds == 1..Len(Docs)

Node(d, n) == Docs[d].nodes[n]

(***************************************************************************)
(* Scalar construction, by the tag the resolver gave the node.             *)
(***************************************************************************)
\* int(value), with the 0x prefix construct_yaml_int accepts
IntOfText(text) ==
    CASE text = "0" -> 0
      [] text = "1" -> 1
      [] text = "2" -> 2
      [] text = "3" -> 3
      [] text = "0x1" -> 1

\* bool_values[value.lower()]
BoolOfText(text) ==
    CASE text \in {"true", "yes", "on"} -> 1
      [] text \in {"false", "no", "off"} -> 0

\* float(value)
FloatOfText(text) ==
    CASE text = "1.0" -> 1
      [] text = "0.0" -> 0

ConstructScalar(node) ==
    CASE node.tag = StrTag -> Val("str", node.value, 0)
      [] node.tag = IntTag -> Val("int", "", IntOfText(node.value))
      [] node.tag = BoolTag -> Val("bool", "", BoolOfText(node.value))
      [] node.tag = FloatTag -> Val("float", "", FloatOfText(node.value))
      [] node.tag = NullTag -> None

ScalarTags == {StrTag, IntTag, BoolTag, FloatTag, NullTag}

\* SafeLoader.yaml_constructors without the registration of this module
yaml_constructors_SafeLoader(tag) ==
    CASE tag = DEFAULT_MAPPING_TAG -> "construct_yaml_map"
      [] tag = SeqTag -> "construct_yaml_seq"
      [] tag = SetTag -> "construct_yaml_set"
      [] tag \in ScalarTags -> "construct_scalar"
      [] OTHER -> "construct_undefined"

\* The registry with no constructor added.
yaml_constructors_unregistered(tag) == yaml_constructors_SafeLoader(tag)

\* SafeLoader.yaml_constructors after the module is imported: add_constructor
\* has put construct_mapping under the default mapping tag, and only there.
yaml_constructors(tag) ==
    IF tag = DEFAULT_MAPPING_TAG
    THEN "UniqueKeyLoader.construct_mapping"
    ELSE yaml_constructors_SafeLoader(tag)

\* The constructors that are generators: they yield an empty container and
\* fill it when construct_document resumes them.
GeneratorType(ctor) ==
    CASE ctor = "construct_yaml_seq" -> "list"
      [] ctor = "construct_yaml_map" -> "dict"
      [] ctor = "construct_yaml_set" -> "set"
      [] OTHER -> ""

(***************************************************************************)
(* The state of one call of safe_load, and the heap.                       *)
(***************************************************************************)
NoOutcome == [kind |-> "none", val |-> None, msg |-> <<>>]

InitCall(d) ==
    [doc |-> d, phase |-> "load", stack |-> <<>>, gens |-> <<>>,
     constructed |-> <<>>, recursive |-> {}, data |-> None, exc |-> NoExc,
     outcome |-> NoOutcome]

\* A frame of construct_mapping (kind "umap": the one of this module, "bmap":
\* BaseConstructor's) or of construct_sequence (kind "seq").
Frame(kind, node, pc, local) ==
    [kind |-> kind, node |-> node, i |-> 1, pc |-> pc, key |-> None,
     val |-> None, local |-> local]

\* One object per node for all the calls.
AllocShared(c, n) == <<1, n>>

\* The address of the object a call constructs for a node: a new object.
Alloc(c, n) == <<c, n>>

HeapPut(h, a, o) == [x \in (DOMAIN h) \cup {a} |-> IF x = a THEN o ELSE h[x]]

FnPut(f, x, v) == [y \in (DOMAIN f) \cup {x} |-> IF y = x THEN v ELSE f[y]]

Res(st, h) == [st |-> st, h |-> h]

Top(st) == st.stack[Len(st.stack)]

SetTop(st, f) == [st EXCEPT !.stack[Len(st.stack)] = f]

Pop(st) == [st EXCEPT !.stack = SubSeq(@, 1, Len(@) - 1)]

\* An exception leaves every frame; yaml.load has no handler, so it arrives
\* in safe_load.  The stack stays as the traceback of the exception: no
\* frame of it runs again.
RaiseExc(st, h, e) == Res([st EXCEPT !.phase = "except", !.exc = e], h)

\* The order of the steps for one pair in construct_mapping.
AfterKey == "hash"

AfterHashNoCheck == "value"

AfterHash == "dup"

AfterDup == "value"

AfterValue == "insert"

\* construct_object returns v to its caller: the frame on top of the stack,
\* or construct_document when the root has been constructed.
Deliver(st, h, v) ==
    IF st.stack = <<>>
    THEN Res([st EXCEPT !.data = v, !.phase = "drain"], h)
    ELSE LET f == Top(st)
             node == Node(st.doc, f.node)
         IN  CASE f.kind = "seq" ->
                    Res(SetTop(st, [f EXCEPT
                            !.local.vals = Append(@, v),
                            !.i = @ + 1,
                            !.pc = IF f.i + 1 > Len(node.items)
                                   THEN "extend" ELSE "item"]), h)
               [] f.kind # "seq" /\ f.pc = "key" ->
                    Res(SetTop(st, [f EXCEPT !.key = v, !.pc = AfterKey]), h)
               [] f.kind # "seq" /\ f.pc = "value" ->
                    Res(SetTop(st, [f EXCEPT !.val = v, !.pc = AfterValue]), h)

\* construct_mapping up to the loop: the check of the node and mapping = {}
EnterConstructMapping(c, st, h, n) ==
    LET node == Node(st.doc, n)
    IN  IF node.id # "mapping"
        THEN RaiseExc(st, h, ConstructorError(<<>>, 0,
                 <<"expected a mapping node, but found ", node.id>>,
                 node.start_mark))
        ELSE Res([st EXCEPT !.stack = Append(@,
                      Frame("umap", n,
                            IF node.pairs = <<>> THEN "return" ELSE "key",
                            EmptyObj("dict")))],
                 HeapPut(h, Alloc(c, n), EmptyObj("dict")))

\* self.construct_object(node, deep=False)
ConstructObject(c, st, h, n) ==
    LET node == Node(st.doc, n)
        ctor == yaml_constructors(node.tag)
    IN  IF n \in DOMAIN st.constructed
        THEN Deliver(st, h, st.constructed[n])
        ELSE IF n \in st.recursive
        THEN RaiseExc(st, h, ConstructorError(<<>>, 0,
                 <<"found unconstructable recursive node">>, node.start_mark))
        ELSE CASE ctor = "UniqueKeyLoader.construct_mapping" ->
                    EnterConstructMapping(c,
                        [st EXCEPT !.recursive = @ \cup {n}], h, n)
               [] GeneratorType(ctor) # "" ->
                    LET ref == Ref(GeneratorType(ctor), n)
                    IN  Deliver([st EXCEPT
                                    !.gens = Append(@, n),
                                    !.constructed = FnPut(@, n, ref)],
                                HeapPut(h, Alloc(c, n),
                                        EmptyObj(GeneratorType(ctor))),
                                ref)
               [] ctor = "construct_scalar" ->
                    IF node.id # "scalar"
                    THEN RaiseExc(st, h, ConstructorError(<<>>, 0,
                             <<"expected a scalar node, but found ", node.id>>,
                             node.start_mark))
                    ELSE Deliver([st EXCEPT !.constructed =
                                     FnPut(@, n, ConstructScalar(node))],
                                 h, ConstructScalar(node))
               [] OTHER ->
                    RaiseExc(st, h, ConstructorError(<<>>, 0,
                        <<"could not determine a constructor for the tag '",
                          node.tag, "'">>, node.start_mark))

(***************************************************************************)
(* The steps of a call.  Each takes the call, its state and the heap and   *)
(* gives the new state and heap.                                           *)
(***************************************************************************)
KeyNode(st) == Node(st.doc, Top(st).node).pairs[Top(st).i][1]

ValueNode(st) == Node(st.doc, Top(st).node).pairs[Top(st).i][2]

\* yaml.load: the stream is composed to the end before anything is
\* constructed; an empty stream gives None.
DoCompose(c, st, h) ==
    LET d == Docs[st.doc]
    IN  IF d.error # NoExc
        THEN RaiseExc(st, h, d.error)
        ELSE IF d.root = 0
        THEN Res([st EXCEPT !.phase = "done",
                     !.outcome = [kind |-> "value", val |-> None, msg |-> <<>>]],
                 h)
        ELSE ConstructObject(c, [st EXCEPT !.phase = "construct"], h, d.root)

\* key = self.construct_object(key_node, deep=deep)
DoResolveKey(c, st, h) == ConstructObject(c, st, h, KeyNode(st))

\* the TypeError of hash(key) as ConstructorError
UnacceptableKeyError(node, key_node, key) ==
    ConstructorError(<<"while constructing a mapping">>, node.start_mark,
        <<"found unacceptable key (", "unhashable type: '", TypeName(key),
          "'", ")">>, key_node.start_mark)

\* BaseConstructor.construct_mapping: not isinstance(key, Hashable)
UnhashableKeyError(node, key_node, key) ==
    ConstructorError(<<"while constructing a mapping">>, node.start_mark,
        <<"found unhashable key">>, key_node.start_mark)

\* hash(key)
DoCheckHashable(c, st, h) ==
    LET f == Top(st)
        node == Node(st.doc, f.node)
        key_node == Node(st.doc, KeyNode(st))
    IN  IF ~Hashable(f.key)
        THEN RaiseExc(st, h,
                 IF f.kind = "umap"
                 THEN UnacceptableKeyError(node, key_node, f.key)
                 ELSE UnhashableKeyError(node, key_node, f.key))
        ELSE Res(SetTop(st, [f EXCEPT !.pc = IF f.kind = "umap"
                                              THEN AfterHash
                                              ELSE "value"]), h)

\* The duplicate error with the marks of the node and of the key, and
\* without the text of the key.
DuplicateKeyErrorMarked(node, key_node) ==
    ConstructorError(<<"while constructing a mapping">>, node.start_mark,
                     <<"found duplicate key">>, key_node.start_mark)

\* ConstructorError('found duplicate key "%s"' % key_node.value)
DuplicateKeyError(node, key_node) ==
    ConstructorError(<<"found duplicate key \"", key_node.value, "\"">>, 0,
                     <<>>, 0)

\* A duplicate check that finds nothing.
IsDuplicateNever(mapping, key) == FALSE

\* key in mapping
IsDuplicate(mapping, key) == KeyIn(mapping, key)

\* if key in mapping: raise
DoCheckDuplicate(c, st, h) ==
    LET f == Top(st)
        node == Node(st.doc, f.node)
        key_node == Node(st.doc, KeyNode(st))
    IN  IF IsDuplicate(h[Alloc(c, f.node)], f.key)
        THEN RaiseExc(st, h, DuplicateKeyError(node, key_node))
        ELSE Res(SetTop(st, [f EXCEPT !.pc = AfterDup]), h)

\* value = self.construct_object(value_node, deep=deep)
DoResolveValue(c, st, h) == ConstructObject(c, st, h, ValueNode(st))

\* mapping[key] = value, and the next turn of the loop
DoInsert(c, st, h) ==
    LET f == Top(st)
        node == Node(st.doc, f.node)
        a == Alloc(c, f.node)
        g == [f EXCEPT !.i = @ + 1,
                       !.pc = IF f.i + 1 > Len(node.pairs)
                              THEN "return" ELSE "key"]
    IN  IF f.kind = "umap"
        THEN Res(SetTop(st, g), HeapPut(h, a, DictSet(h[a], f.key, f.val)))
        ELSE Res(SetTop(st, [g EXCEPT !.local = DictSet(@, f.key, f.val)]), h)

\* return mapping, and the end of construct_object: the node is constructed
DoReturnMapping(c, st, h) ==
    LET n == Top(st).node
        ref == Ref("dict", n)
    IN  Deliver([Pop(st) EXCEPT !.constructed = FnPut(@, n, ref),
                                !.recursive = @ \ {n}], h, ref)

\* construct_yaml_map and construct_yaml_set after the yield:
\* data.update(value)
DoUpdateData(c, st, h) ==
    LET f == Top(st)
        a == Alloc(c, f.node)
    IN  Res(Pop(st), HeapPut(h, a, UpdateFrom(h[a], f.local, 1)))

\* construct_sequence: self.construct_object(child, deep=deep)
DoSeqItem(c, st, h) ==
    ConstructObject(c, st, h, Node(st.doc, Top(st).node).items[Top(st).i])

\* construct_yaml_seq after the yield: data.extend(...)
DoSeqExtend(c, st, h) ==
    LET f == Top(st)
        a == Alloc(c, f.node)
    IN  Res(Pop(st), HeapPut(h, a, [h[a] EXCEPT !.vals = @ \o f.local.vals]))

\* self.state_generators, as construct_document sees it
PendingGenerators(st) == st.gens

\* construct_document resumes the next generator.
DoResumeGenerator(c, st, h) ==
    LET n == Head(st.gens)
        node == Node(st.doc, n)
        t == GeneratorType(yaml_constructors(node.tag))
        st1 == [st EXCEPT !.gens = Tail(@)]
    IN  IF t = "list"
        THEN IF node.id # "sequence"
             THEN RaiseExc(st1, h, ConstructorError(<<>>, 0,
                      <<"expected a sequence node, but found ", node.id>>,
                      node.start_mark))
             ELSE Res([st1 EXCEPT !.stack = Append(@,
                           Frame("seq", n,
                                 IF node.items = <<>> THEN "extend" ELSE "item",
                                 EmptyObj("list")))], h)
        ELSE IF node.id # "mapping"
             THEN RaiseExc(st1, h, ConstructorError(<<>>, 0,
                      <<"expected a mapping node, but found ", node.id>>,
                      node.start_mark))
             ELSE Res([st1 EXCEPT !.stack = Append(@,
                           Frame("bmap", n,
                                 IF node.pairs = <<>> THEN "return" ELSE "key",
                                 EmptyObj("dict")))], h)

\* construct_document, yaml.load and safe_load return the data.
DoReturnData(c, st, h) ==
    Res([st EXCEPT !.phase = "done",
            !.outcome = [kind |-> "value", val |-> st.data, msg |-> <<>>]], h)

\* The exception let through as it is.
SafeLoadErrorBare(e) ==
    [kind |-> e.type, val |-> None, msg |-> StrOfError(e)]

\* The ValueError of safe_load for the exception e
SafeLoadError(e) ==
    [kind |-> "ValueError", val |-> None,
     msg |-> <<"Failed to load workflow definition because ">>
             \o StrOfError(e) \o <<".">>]

\* The exception swallowed, and what construct_document had so far returned.
DoExceptSwallow(c, st, h) ==
    Res([st EXCEPT !.phase = "done",
            !.outcome = [kind |-> "value", val |-> st.data, msg |-> <<>>]], h)

\* except Exception as e: raise ValueError(...)
DoExcept(c, st, h) ==
    Res([st EXCEPT !.phase = "done", !.outcome = SafeLoadError(st.exc)], h)

(***************************************************************************)
(* Which step a call is at.                                                *)
(***************************************************************************)
AtFrame(st, kinds, pc) ==
    /\ st.phase \in {"construct", "drain"}
    /\ st.stack # <<>>
    /\ Top(st).kind \in kinds
    /\ Top(st).pc = pc

AtCompose(st) == st.phase = "load"

AtResolveKey(st) == AtFrame(st, {"umap", "bmap"}, "key")

AtCheckHashable(st) == AtFrame(st, {"umap", "bmap"}, "hash")

AtCheckDuplicate(st) == AtFrame(st, {"umap"}, "dup")

AtResolveValue(st) == AtFrame(st, {"umap", "bmap"}, "value")

AtInsert(st) == AtFrame(st, {"umap", "bmap"}, "insert")

AtReturnMapping(st) == AtFrame(st, {"umap"}, "return")

AtUpdateData(st) == AtFrame(st, {"bmap"}, "return")

AtSeqItem(st) == AtFrame(st, {"seq"}, "item")

AtSeqExtend(st) == AtFrame(st, {"seq"}, "extend")

AtResumeGenerator(st) ==
    st.phase = "drain" /\ st.stack = <<>> /\ PendingGenerators(st) # <<>>

AtReturnData(st) ==
    st.phase = "drain" /\ st.stack = <<>> /\ PendingGenerators(st) = <<>>

AtExcept(st) == st.phase = "except"

\* The one step a call that has not ended can take.
StepOf(c, st, h) ==
    CASE AtCompose(st) -> DoCompose(c, st, h)
      [] AtResolveKey(st) -> DoResolveKey(c, st, h)
      [] AtCheckHashable(st) -> DoCheckHashable(c, st, h)
      [] AtCheckDuplicate(st) -> DoCheckDuplicate(c, st, h)
      [] AtResolveValue(st) -> DoResolveValue(c, st, h)
      [] AtInsert(st) -> DoInsert(c, st, h)
      [] AtReturnMapping(st) -> DoReturnMapping(c, st, h)
      [] AtUpdateData(st) -> DoUpdateData(c, st, h)
      [] AtSeqItem(st) -> DoSeqItem(c, st, h)
      [] AtSeqExtend(st) -> DoSeqExtend(c, st, h)
      [] AtResumeGenerator(st) -> DoResumeGenerator(c, st, h)
      [] AtReturnData(st) -> DoReturnData(c, st, h)
      [] AtExcept(st) -> DoExcept(c, st, h)

RECURSIVE Run(_, _, _)
\* A call run to its end with no other call in between.
Run(c, st, h) ==
    IF st.phase = "done"
    THEN Res(st, h)
    ELSE LET r == StepOf(c, st, h) IN Run(c, r.st, r.h)

(***************************************************************************)
(* The state machine.                                                      *)
(***************************************************************************)
VARIABLES calls, heap

vars == <<calls, heap>>

\* The documents of the calls that run interleaved.
ConcurrentDocs ==
    {DocFlat, DocDup, DocSequenceValue, DocSetDup, DocAlias, DocSyntaxError}

Init ==
    /\ calls \in [Calls -> {InitCall(d) : d \in DocIds}]
    /\ heap = <<>>

InitConcurrent ==
    /\ calls \in [Calls -> {InitCall(d) : d \in {x \in DocIds : Docs[x] \in ConcurrentDocs}}]
    /\ heap = <<>>

Apply(c, r) ==
    /\ calls' = [calls EXCEPT ![c] = r.st]
    /\ heap' = r.h

Compose(c) == AtCompose(calls[c]) /\ Apply(c, DoCompose(c, calls[c], heap))

ResolveKey(c) ==
    AtResolveKey(calls[c]) /\ Apply(c, DoResolveKey(c, calls[c], heap))

CheckHashable(c) ==
    AtCheckHashable(calls[c]) /\ Apply(c, DoCheckHashable(c, calls[c], heap))

CheckDuplicate(c) ==
    AtCheckDuplicate(calls[c]) /\ Apply(c, DoCheckDuplicate(c, calls[c], heap))

ResolveValue(c) ==
    AtResolveValue(calls[c]) /\ Apply(c, DoResolveValue(c, calls[c], heap))

Insert(c) == AtInsert(calls[c]) /\ Apply(c, DoInsert(c, calls[c], heap))

ReturnMapping(c) ==
    AtReturnMapping(calls[c]) /\ Apply(c, DoReturnMapping(c, calls[c], heap))

UpdateData(c) ==
    AtUpdateData(calls[c]) /\ Apply(c, DoUpdateData(c, calls[c], heap))

SeqItem(c) == AtSeqItem(calls[c]) /\ Apply(c, DoSeqItem(c, calls[c], heap))

SeqExtend(c) ==
    AtSeqExtend(calls[c]) /\ Apply(c, DoSeqExtend(c, calls[c], heap))

ResumeGenerator(c) ==
    /\ AtResumeGenerator(calls[c])
    /\ Apply(c, DoResumeGenerator(c, calls[c], heap))

ReturnData(c) ==
    AtReturnData(calls[c]) /\ Apply(c, DoReturnData(c, calls[c], heap))

Except(c) == AtExcept(calls[c]) /\ Apply(c, DoExcept(c, calls[c], heap))

Step(c) ==
    \/ Compose(c)
    \/ ResolveKey(c)
    \/ CheckHashable(c)
    \/ CheckDuplicate(c)
    \/ ResolveValue(c)
    \/ Insert(c)
    \/ ReturnMapping(c)
    \/ UpdateData(c)
    \/ SeqItem(c)
    \/ SeqExtend(c)
    \/ ResumeGenerator(c)
    \/ ReturnData(c)
    \/ Except(c)

\* One call after the other: a call starts when the calls before it ended.
Next ==
    \E c \in Calls :
        /\ \A b \in 1..(c - 1) : calls[b].phase = "done"
        /\ Step(c)

\* The calls interleaved, as threads run them.
NextConcurrent == \E c \in Calls : Step(c)

Spec == Init /\ [][Next]_vars

SpecConcurrent == InitConcurrent /\ [][NextConcurrent]_vars

(***************************************************************************)
(* Vocabulary of the properties.                                           *)
(***************************************************************************)
NodeIds(d) == 1..Len(Docs[d].nodes)

IsMapping(d, n) == Node(d, n).id = "mapping"

\* The mapping nodes construct_mapping of this module constructs.
IsPlainMapping(d, n) == IsMapping(d, n) /\ Node(d, n).tag = DEFAULT_MAPPING_TAG

PairKey(d, n, j) == Node(d, n).pairs[j][1]

PairValue(d, n, j) == Node(d, n).pairs[j][2]

\* The places of the document that refer to node x: more than one when an
\* alias repeats an anchored node.
Uses(d, x) ==
    {u \in NodeIds(d) \X NodeIds(d) \X {0, 1, 2} :
        LET node == Node(d, u[1])
        IN  IF u[3] = 0
            THEN u[2] <= Len(node.items) /\ node.items[u[2]] = x
            ELSE u[2] <= Len(node.pairs) /\ node.pairs[u[2]][u[3]] = x}

\* The nodes referred to once; the root is referred to by the document.
UsedOnceIn ==
    [d \in DocIds |->
        {x \in NodeIds(d) :
            Cardinality(Uses(d, x)) + (IF Docs[d].root = x THEN 1 ELSE 0) = 1}]

UsedOnce(d, x) == x \in UsedOnceIn[d]

\* What construct_object returns for a node: a scalar, or the reference to
\* the container of the node.
NativeOf(d, n) ==
    LET node == Node(d, n)
    IN  IF node.id = "scalar" /\ node.tag \in ScalarTags
        THEN ConstructScalar(node)
        ELSE IF node.tag = SetTag THEN Ref("set", n)
        ELSE IF node.id = "sequence" THEN Ref("list", n)
        ELSE Ref("dict", n)

\* Equality of two resolved keys, stated on its own: numbers (booleans are
\* numbers) by their numeric value, strings by their text, None with None.
EqualNative(a, b) ==
    \/ a.t \in {"int", "float", "bool"} /\ b.t \in {"int", "float", "bool"}
       /\ a.n = b.n
    \/ a.t = "str" /\ b.t = "str" /\ a.s = b.s
    \/ a.t = "none" /\ b.t = "none"

Contains(msg, piece) == \E x \in 1..Len(msg) : msg[x] = piece

\* msg holds the pieces of part one after the other.
ContainsSeq(msg, part) ==
    \E x \in 0..(Len(msg) - Len(part)) :
        \A y \in 1..Len(part) : msg[x + y] = part[y]

IsMarkText(piece) == piece = MarkStr(0)[1]

Failed(st) == st.exc # NoExc

Ended(st) == st.phase = "done"

\* The frames of construct_mapping of this module on the stack of a call.
UFrames(st) == {k \in 1..Len(st.stack) : st.stack[k].kind = "umap"}

\* The call failed in the frame on top of its stack, at step pc.
FailedAt(st, pc) ==
    /\ Failed(st)
    /\ st.stack # <<>>
    /\ Top(st).kind = "umap"
    /\ Top(st).pc = pc

(***************************************************************************)
(* C7: while construct_mapping builds a mapping, the mapping holds exactly *)
(* the pairs processed so far, each once and in document order: with i     *)
(* pairs processed it has i entries, entry j being the key and the value   *)
(* of pair j of the node; so no insertion overwrites or moves an entry.    *)
(* The same holds of every mapping it has returned.                        *)
(***************************************************************************)
EntriesAre(c, d, n, count) ==
    LET o == heap[Alloc(c, n)]
    IN  /\ o.t = "dict"
        /\ Len(o.keys) = count
        /\ Len(o.vals) = count
        /\ \A j \in 1..count :
              /\ o.keys[j] = NativeOf(d, PairKey(d, n, j))
              /\ o.vals[j] = NativeOf(d, PairValue(d, n, j))

C7_EntriesInDocumentOrder ==
    \A c \in Calls :
        LET st == calls[c]
        IN  /\ \A k \in UFrames(st) :
                  EntriesAre(c, st.doc, st.stack[k].node, st.stack[k].i - 1)
            /\ \A n \in DOMAIN st.constructed :
                  IsPlainMapping(st.doc, n) =>
                      EntriesAre(c, st.doc, n, Len(Node(st.doc, n).pairs))

\* Two pairs are in the mapping and the third is being looked at.
C7_Witness ==
    \E c \in Calls :
        /\ Docs[calls[c].doc] = DocScalarKeys
        /\ AtResolveKey(calls[c])
        /\ Top(calls[c]).i = 3
        /\ Len(heap[Alloc(c, 1)].keys) = 2

(***************************************************************************)
(* C9: in one mapping node the pairs are processed in document order, and  *)
(* each pair in the order key, hashable check, duplicate check, value,     *)
(* insert.  So the value of a pair is resolved only after both checks      *)
(* passed, no pair after the one being processed has been touched, every   *)
(* pair before it is finished (a value that is a mapping is complete and   *)
(* has no frame left), and a failure is the failure of the step the frame  *)
(* was at.                                                                 *)
(***************************************************************************)
Untouched(c, st, x) ==
    /\ x \notin DOMAIN st.constructed
    /\ x \notin st.recursive
    /\ Alloc(c, x) \notin DOMAIN heap

FrameInOrder(c, st, k) ==
    LET f == st.stack[k]
        d == st.doc
        n == f.node
        count == Len(Node(d, n).pairs)
        o == heap[Alloc(c, n)]
    IN  /\ f.i \in 1..(count + 1)
        /\ (f.pc = "return") = (f.i = count + 1)
        /\ f.pc \in {"key", "hash", "dup", "value", "insert", "return"}
        \* both checks passed before the value is resolved
        /\ f.pc \in {"hash", "dup", "value", "insert"} =>
              f.key = NativeOf(d, PairKey(d, n, f.i))
        /\ f.pc \in {"dup", "value", "insert"} => f.key.t \notin Containers
        /\ f.pc \in {"value", "insert"} =>
              \A j \in 1..Len(o.keys) : ~EqualNative(o.keys[j], f.key)
        \* the value of the pair is resolved after the checks
        /\ f.i <= count /\ UsedOnce(d, PairValue(d, n, f.i)) =>
              /\ PairValue(d, n, f.i) \in DOMAIN st.constructed =>
                    f.pc = "insert"
              /\ PairValue(d, n, f.i) \in st.recursive =>
                    f.pc = "value" /\ (k < Len(st.stack) \/ Failed(st))
              /\ f.pc \in {"key", "hash", "dup"} =>
                    Untouched(c, st, PairValue(d, n, f.i))
        /\ f.pc = "insert" => f.val = NativeOf(d, PairValue(d, n, f.i))
        \* no later pair has been looked at
        /\ \A j \in (f.i + 1)..count :
              \A x \in {PairKey(d, n, j), PairValue(d, n, j)} :
                  UsedOnce(d, x) => Untouched(c, st, x)
        \* the earlier pairs are finished
        /\ \A j \in 1..(f.i - 1) :
              /\ PairKey(d, n, j) \in DOMAIN st.constructed
              /\ PairValue(d, n, j) \in DOMAIN st.constructed
              /\ IsPlainMapping(d, PairValue(d, n, j)) =>
                    /\ Len(heap[Alloc(c, PairValue(d, n, j))].keys) =
                          Len(Node(d, PairValue(d, n, j)).pairs)
                    /\ \A m \in 1..Len(st.stack) :
                          st.stack[m].node # PairValue(d, n, j)

\* The exception is the one of the step the failing frame was at.
FailureOfStep(st) ==
    LET f == Top(st)
        d == st.doc
        key_node == Node(d, PairKey(d, f.node, f.i))
        value_node == Node(d, PairValue(d, f.node, f.i))
    IN  /\ f.pc \in {"key", "hash", "dup", "value"}
        /\ f.pc = "key" => st.exc.problem_mark = key_node.start_mark
        /\ f.pc = "hash" =>
              /\ f.key.t \in Containers
              /\ st.exc.problem[1] = "found unacceptable key ("
              /\ st.exc.problem_mark = key_node.start_mark
        /\ f.pc = "dup" =>
              st.exc.context = <<"found duplicate key \"", key_node.value, "\"">>
        /\ f.pc = "value" => st.exc.problem_mark = value_node.start_mark

C9_StepsInOrder ==
    \A c \in Calls :
        LET st == calls[c]
        IN  /\ \A k \in UFrames(st) : FrameInOrder(c, st, k)
            /\ Failed(st) /\ st.stack # <<>> /\ Top(st).kind = "umap" =>
                  FailureOfStep(st)

\* The second b of DocDupThenUnhashable is refused: its value, a mapping
\* with a duplicate of its own, and the pair after it are never resolved.
C9_Witness ==
    \E c \in Calls :
        /\ Docs[calls[c].doc] = DocDupThenUnhashable
        /\ Ended(calls[c])
        /\ FailedAt(calls[c], "dup")
        /\ Top(calls[c]).i = 2
        /\ Untouched(c, calls[c], 5)
        /\ Untouched(c, calls[c], 10)

Composes(d) == Docs[d].error = NoExc

\* No explicit tag, and only scalars the resolver makes a string, an
\* integer, a float, a boolean or null.
PlainTags(d) ==
    \A n \in NodeIds(d) :
        LET node == Node(d, n)
        IN  CASE node.id = "mapping" -> node.tag = DEFAULT_MAPPING_TAG
              [] node.id = "sequence" -> node.tag = SeqTag
              [] node.id = "scalar" -> node.tag \in ScalarTags

\* Every key of every mapping is a scalar.
ScalarKeys(d) ==
    \A n \in NodeIds(d) :
        \A j \in 1..Len(Node(d, n).pairs) :
            Node(d, PairKey(d, n, j)).id = "scalar"

\* No alias refers to a node that encloses it: the composer numbers a node
\* before its children.
NoEnclosingAlias(d) ==
    \A n \in NodeIds(d) :
        /\ \A j \in 1..Len(Node(d, n).items) : Node(d, n).items[j] > n
        /\ \A j \in 1..Len(Node(d, n).pairs) :
              PairKey(d, n, j) > n /\ PairValue(d, n, j) > n

\* Keys j and k of mapping n are the same scalar, written the same way.
IdenticalKeys(d, n, j, k) ==
    LET a == Node(d, PairKey(d, n, j))
        b == Node(d, PairKey(d, n, k))
    IN  /\ a.id = "scalar" /\ b.id = "scalar"
        /\ a.tag = b.tag /\ a.value = b.value /\ a.style = b.style

KeyPairs(d, n) ==
    {jk \in (1..Len(Node(d, n).pairs)) \X (1..Len(Node(d, n).pairs)) :
        jk[1] < jk[2]}

IdenticalKeysIn(d) ==
    \E n \in NodeIds(d) :
        IsMapping(d, n) /\ \E jk \in KeyPairs(d, n) :
            IdenticalKeys(d, n, jk[1], jk[2])

\* Keys j and k of mapping n are scalars that resolve to equal values.
EqualKeys(d, n, j, k) ==
    LET a == Node(d, PairKey(d, n, j))
        b == Node(d, PairKey(d, n, k))
    IN  /\ a.id = "scalar" /\ b.id = "scalar"
        /\ a.tag \in ScalarTags /\ b.tag \in ScalarTags
        /\ EqualNative(ConstructScalar(a), ConstructScalar(b))

EqualKeysIn(d) ==
    \E n \in NodeIds(d) :
        IsMapping(d, n) /\ \E jk \in KeyPairs(d, n) :
            EqualKeys(d, n, jk[1], jk[2])

\* What is fixed by the document, computed once.
DocFacts ==
    [d \in DocIds |->
        [identical |-> IdenticalKeysIn(d), equal |-> EqualKeysIn(d),
         plain |-> PlainTags(d), scalarKeys |-> ScalarKeys(d),
         noEnclosingAlias |-> NoEnclosingAlias(d)]]

HasIdenticalKeys(d) == DocFacts[d].identical

HasEqualKeys(d) == DocFacts[d].equal

Leaf(v) == [t |-> v.t, s |-> v.s, n |-> v.n, keys |-> <<>>, vals |-> <<>>]

RECURSIVE Deref(_, _, _)
\* The structure a value stands for: its containers followed through the
\* heap of call c.
Deref(c, h, v) ==
    IF v.t \in Containers
    THEN LET o == h[Alloc(c, v.n)]
         IN  [t |-> v.t, s |-> "", n |-> 0, keys |-> o.keys,
              vals |-> [j \in 1..Len(o.vals) |-> Deref(c, h, o.vals[j])]]
    ELSE Leaf(v)

RECURSIVE Expected(_, _)
\* The structure node n of document d describes.
Expected(d, n) ==
    LET node == Node(d, n)
    IN  CASE node.id = "scalar" -> Leaf(ConstructScalar(node))
          [] node.id = "sequence" ->
               [t |-> "list", s |-> "", n |-> 0, keys |-> <<>>,
                vals |-> [j \in 1..Len(node.items) |->
                             Expected(d, node.items[j])]]
          [] node.id = "mapping" ->
               [t |-> "dict", s |-> "", n |-> 0,
                keys |-> [j \in 1..Len(node.pairs) |->
                             ConstructScalar(Node(d, node.pairs[j][1]))],
                vals |-> [j \in 1..Len(node.pairs) |->
                             Expected(d, node.pairs[j][2])]]

ExpectedOf(d) ==
    IF Docs[d].root = 0 THEN Leaf(None) ELSE Expected(d, Docs[d].root)

Prefix == "Failed to load workflow definition because "

DuplicateText(text) == <<"found duplicate key \"", text, "\"">>

(***************************************************************************)
(* C1, as claimed: a document in which some mapping node has two identical *)
(* keys never gives a value; the call fails with a message that contains   *)
(* "duplicate" and the text of a key written twice.                        *)
(***************************************************************************)
C1_Original ==
    \A c \in Calls :
        LET st == calls[c]
            d == st.doc
        IN  Ended(st) /\ HasIdenticalKeys(d) =>
                /\ st.outcome.kind = "ValueError"
                /\ Contains(st.outcome.msg, "found duplicate key \"")
                /\ \E n \in NodeIds(d) : \E jk \in KeyPairs(d, n) :
                      /\ IdenticalKeys(d, n, jk[1], jk[2])
                      /\ Contains(st.outcome.msg,
                                  Node(d, PairKey(d, n, jk[2])).value)

(***************************************************************************)
(* C1, amended: a document that composes and has no explicit tag, in which *)
(* some mapping node (at any depth, also inside a sequence) has two        *)
(* identical keys, never gives a value: the call fails, with the error of  *)
(* the first check that fails.  When that is the duplicate check, the      *)
(* message contains "duplicate" and the text of the key that repeats an    *)
(* earlier key of its mapping; and it is the duplicate check when every    *)
(* key of the document is a scalar and no alias refers to an enclosing     *)
(* node.                                                                   *)
(***************************************************************************)
C1_DuplicateFails ==
    \A c \in Calls :
        LET st == calls[c]
            d == st.doc
        IN  Ended(st) /\ Composes(d) /\ DocFacts[d].plain /\ HasIdenticalKeys(d) =>
                /\ st.outcome.kind = "ValueError"
                /\ st.outcome.val = None
                /\ DocFacts[d].scalarKeys /\ DocFacts[d].noEnclosingAlias =>
                      FailedAt(st, "dup")
                /\ FailedAt(st, "dup") =>
                      LET f == Top(st)
                          text == Node(d, PairKey(d, f.node, f.i)).value
                      IN  /\ \E j \in 1..(f.i - 1) :
                                EqualKeys(d, f.node, j, f.i)
                          /\ ContainsSeq(st.outcome.msg, DuplicateText(text))

\* The duplicate sits in a mapping inside a sequence, and is found when the
\* sequence is filled, after the mapping around it was built.
C1_Witness ==
    \E c \in Calls :
        /\ Docs[calls[c].doc] = DocDupInSequence
        /\ Ended(calls[c])
        /\ FailedAt(calls[c], "dup")
        /\ Top(calls[c]).node = 4
        /\ Len(heap[Alloc(c, 1)].keys) = 2
        /\ ContainsSeq(calls[c].outcome.msg, DuplicateText("a"))

(***************************************************************************)
(* C2, as claimed: a document that composes and has no mapping with two    *)
(* identical keys gives a value, the structure the document describes.     *)
(***************************************************************************)
C2_Original ==
    \A c \in Calls :
        LET st == calls[c]
            d == st.doc
        IN  Ended(st) /\ Composes(d) /\ ~HasIdenticalKeys(d) =>
                /\ st.outcome.kind = "value"
                /\ Deref(c, heap, st.outcome.val) = ExpectedOf(d)

(***************************************************************************)
(* C2, amended: a document that composes, has no explicit tag, only scalar *)
(* keys, no alias to an enclosing node, and no mapping with two keys that  *)
(* resolve to equal values gives a value: the structure the document       *)
(* describes, every mapping with the keys of its node, in order, each      *)
(* bound to the value of its own value node.  A key may appear again in    *)
(* another mapping.                                                        *)
(***************************************************************************)
ValidDoc(d) ==
    /\ Composes(d)
    /\ DocFacts[d].plain
    /\ DocFacts[d].scalarKeys
    /\ DocFacts[d].noEnclosingAlias
    /\ ~HasEqualKeys(d)

C2_ValidDocumentLoads ==
    \A c \in Calls :
        LET st == calls[c]
            d == st.doc
        IN  Ended(st) /\ ValidDoc(d) =>
                /\ st.outcome.kind = "value"
                /\ st.outcome.msg = <<>>
                /\ Deref(c, heap, st.outcome.val) = ExpectedOf(d)

\* a: {a: 1}, b: {a: 2}: the key a three times, in three mappings.
C2_Witness ==
    \E c \in Calls :
        /\ Docs[calls[c].doc] = DocSameKeyElsewhere
        /\ Ended(calls[c])
        /\ calls[c].outcome.kind = "value"
        /\ heap[Alloc(c, 1)].keys = <<Val("str", "a", 0), Val("str", "b", 0)>>
        /\ heap[Alloc(c, 3)].keys = <<Val("str", "a", 0)>>
        /\ heap[Alloc(c, 7)].vals = <<Val("int", "", 2)>>

(***************************************************************************)
(* C4: every failure of safe_load reaches the caller as a ValueError whose *)
(* message is "Failed to load workflow definition because ", the message   *)
(* of the original exception, and "."; this for the errors of the parser   *)
(* and for the non-mapping, unhashable key and duplicate key errors of     *)
(* construct_mapping.  The type of the original exception never gets out.  *)
(***************************************************************************)
MessageOf(c, text) ==
    Ended(calls[c]) /\ calls[c].outcome.msg = <<Prefix>> \o text \o <<".">>

C4_NormalizedError ==
    \A c \in Calls :
        LET st == calls[c]
            doc == Docs[st.doc]
        IN  /\ Ended(st) => st.outcome.kind \in {"value", "ValueError"}
            /\ Ended(st) => (Failed(st) <=> st.outcome.kind = "ValueError")
            /\ Ended(st) /\ Failed(st) =>
                  /\ Len(st.outcome.msg) >= 3
                  /\ Head(st.outcome.msg) = Prefix
                  /\ st.outcome.msg[Len(st.outcome.msg)] = "."
                  /\ SubSeq(st.outcome.msg, 2, Len(st.outcome.msg) - 1)
                        = StrOfError(st.exc)
            /\ Ended(st) /\ doc = DocSyntaxError =>
                  MessageOf(c, <<"while parsing a flow sequence", "\n",
                      "  in \"<unicode string>\", offset ", "4", "\n",
                      "expected ',' or ']', but got '<stream end>'", "\n",
                      "  in \"<unicode string>\", offset ", "9">>)
            /\ Ended(st) /\ doc = DocNotText =>
                  MessageOf(c, <<"'NoneType' object has no attribute 'read'">>)
            /\ Ended(st) /\ doc = DocNotAMapping =>
                  MessageOf(c, <<"expected a mapping node, but found ",
                      "scalar", "\n",
                      "  in \"<unicode string>\", offset ", "4">>)
            /\ Ended(st) /\ doc = DocMappingKey =>
                  MessageOf(c, <<"while constructing a mapping", "\n",
                      "  in \"<unicode string>\", offset ", "1", "\n",
                      "found unacceptable key (", "unhashable type: '", "dict",
                      "'", ")", "\n",
                      "  in \"<unicode string>\", offset ", "6">>)
            /\ Ended(st) /\ doc = DocDup =>
                  MessageOf(c, <<"found duplicate key \"", "a", "\"">>)

\* The parser's error for a: [1, 2 has been caught and raised again.
C4_Witness ==
    \E c \in Calls :
        /\ Docs[calls[c].doc] = DocSyntaxError
        /\ Ended(calls[c])
        /\ calls[c].exc.type = "ParserError"
        /\ calls[c].outcome.kind = "ValueError"
        /\ Head(calls[c].outcome.msg) = Prefix

(***************************************************************************)
(* C5: a call ends in one of two ways.  Either it gives a value, and then  *)
(* every node of the document has been constructed and every container is  *)
(* full: a mapping has one entry per pair, a sequence one item per child.   *)
(* Or it gives a ValueError, which carries a message and no value, however  *)
(* much had been built.  Before it ends it gives nothing.                   *)
(***************************************************************************)
ContainerFull(c, d, n) ==
    LET node == Node(d, n)
        o == heap[Alloc(c, n)]
    IN  /\ IsPlainMapping(d, n) => EntriesAre(c, d, n, Len(node.pairs))
        /\ node.tag = SetTag =>
              \A j \in 1..Len(node.pairs) :
                  \E x \in 1..Len(o.keys) :
                      o.keys[x] = NativeOf(d, PairKey(d, n, j))
        /\ node.id = "sequence" =>
              /\ Len(o.vals) = Len(node.items)
              /\ \A j \in 1..Len(node.items) :
                    o.vals[j] = NativeOf(d, node.items[j])

Complete(c, st) ==
    /\ st.stack = <<>>
    /\ st.gens = <<>>
    /\ st.recursive = {}
    /\ \A n \in NodeIds(st.doc) :
          /\ n \in DOMAIN st.constructed
          /\ st.constructed[n] = NativeOf(st.doc, n)
          /\ Node(st.doc, n).id # "scalar" => ContainerFull(c, st.doc, n)
    /\ Docs[st.doc].root # 0 => st.outcome.val = NativeOf(st.doc, Docs[st.doc].root)

C5_AllOrNothing ==
    \A c \in Calls :
        LET st == calls[c]
        IN  /\ ~Ended(st) => st.outcome = NoOutcome
            /\ Ended(st) =>
                  \/ /\ st.outcome.kind = "value"
                     /\ st.outcome.msg = <<>>
                     /\ ~Failed(st)
                     /\ Complete(c, st)
                  \/ /\ st.outcome.kind = "ValueError"
                     /\ st.outcome.val = None
                     /\ Failed(st)

\* a: {b: 1, b: 2} failed with the inner mapping holding one pair and the
\* outer one none: neither is given to the caller.
C5_Witness ==
    \E c \in Calls :
        /\ Docs[calls[c].doc] = DocNestedDup
        /\ Ended(calls[c])
        /\ Len(heap[Alloc(c, 3)].keys) = 1
        /\ Len(heap[Alloc(c, 1)].keys) = 0
        /\ calls[c].outcome.kind = "ValueError"
        /\ calls[c].outcome.val = None

(***************************************************************************)
(* C8, as claimed: the error for a key that is already in the mapping      *)
(* gives the text of the key and its place in the document.                *)
(***************************************************************************)
C8_Original ==
    \A c \in Calls :
        LET st == calls[c]
            key_node == Node(st.doc, PairKey(st.doc, Top(st).node, Top(st).i))
        IN  Ended(st) /\ FailedAt(st, "dup") =>
                /\ Contains(st.outcome.msg, key_node.value)
                /\ ContainsSeq(st.outcome.msg, MarkStr(key_node.start_mark))

(***************************************************************************)
(* C8, amended: the error for a key that is already in the mapping gives   *)
(* the text of the key, and no place: the exception has no mark, and the   *)
(* message is: found duplicate key "<text>".                               *)
(***************************************************************************)
C8_DuplicateErrorNamesKey ==
    \A c \in Calls :
        LET st == calls[c]
            key_node == Node(st.doc, PairKey(st.doc, Top(st).node, Top(st).i))
        IN  FailedAt(st, "dup") =>
                /\ st.exc.context_mark = 0
                /\ st.exc.problem_mark = 0
                /\ StrOfError(st.exc) = DuplicateText(key_node.value)
                /\ Ended(st) =>
                      /\ MessageOf(c, DuplicateText(key_node.value))
                      /\ \A x \in 1..Len(st.outcome.msg) :
                            ~IsMarkText(st.outcome.msg[x])

\* The duplicate one level down, in a: {b: 1, b: 2}.
C8_Witness ==
    \E c \in Calls :
        /\ Docs[calls[c].doc] = DocNestedDup
        /\ Ended(calls[c])
        /\ FailedAt(calls[c], "dup")
        /\ Top(calls[c]).node = 3
        /\ MessageOf(c, DuplicateText("b"))

(***************************************************************************)
(* C10: the duplicate check compares the resolved keys, not their texts.   *)
(* A key is refused exactly when an earlier key of the mapping resolved to *)
(* an equal value, however the two are written (a and "a"; 1 and true; 1   *)
(* and 0x1), and the error gives the text of the later one.  Keys with     *)
(* unequal values are accepted, whatever their type (1 and "1"; 1, false   *)
(* and null).                                                              *)
(***************************************************************************)
RefusedFor(c, text) ==
    /\ calls[c].outcome.kind = "ValueError"
    /\ MessageOf(c, DuplicateText(text))

C10_ComparesResolvedKeys ==
    \A c \in Calls :
        LET st == calls[c]
            d == st.doc
            doc == Docs[d]
        IN  /\ \A k \in UFrames(st) :
                  LET f == st.stack[k]
                      earlier == {j \in 1..(f.i - 1) :
                                     EqualKeys(d, f.node, j, f.i)}
                  IN  /\ f.pc \in {"value", "insert"} => earlier = {}
                      /\ f.pc = "dup" /\ Failed(st) => earlier # {}
                      /\ f.pc = "dup" /\ Failed(st) /\ Ended(st) =>
                            RefusedFor(c,
                                Node(d, PairKey(d, f.node, f.i)).value)
            /\ Ended(st) /\ doc = DocPlainAndQuoted => RefusedFor(c, "a")
            /\ Ended(st) /\ doc = DocNumberAndBoolean => RefusedFor(c, "true")
            /\ Ended(st) /\ doc = DocNumberSpellings => RefusedFor(c, "0x1")
            /\ Ended(st) /\ doc = DocSameTextOtherValue =>
                  /\ st.outcome.kind = "value"
                  /\ heap[Alloc(c, 1)].keys =
                        <<Val("int", "", 1), Val("str", "1", 0)>>
            /\ Ended(st) /\ doc = DocScalarKeys =>
                  /\ st.outcome.kind = "value"
                  /\ heap[Alloc(c, 1)].keys =
                        <<Val("int", "", 1), Val("bool", "", 0), None>>

\* 1: a, true: b is refused for the key true.
C10_Witness ==
    \E c \in Calls :
        /\ Docs[calls[c].doc] = DocNumberAndBoolean
        /\ Ended(calls[c])
        /\ FailedAt(calls[c], "dup")
        /\ Top(calls[c]).key = Val("bool", "", 1)
        /\ heap[Alloc(c, 1)].keys = <<Val("int", "", 1)>>
        /\ RefusedFor(c, "true")

(***************************************************************************)
(* C6: calls that run interleaved do not interfere.  At every moment a     *)
(* call and the objects it has built are in a state the same call on the   *)
(* same document passes through when it runs alone, so it ends as it would *)
(* alone; two calls on the same document end with equal structures, and    *)
(* the objects of the results of two calls are disjoint.                   *)
(***************************************************************************)
\* The objects of call c, by node.
HeapOf(c, d, h) ==
    [n \in {x \in NodeIds(d) : Alloc(c, x) \in DOMAIN h} |-> h[Alloc(c, n)]]

View(c, st, h) == [st |-> st, objects |-> HeapOf(c, st.doc, h)]

RECURSIVE Trace(_, _, _)
\* The states of a call that runs alone.
Trace(c, st, h) ==
    {View(c, st, h)} \cup
    (IF st.phase = "done"
     THEN {}
     ELSE LET r == StepOf(c, st, h) IN Trace(c, r.st, r.h))

SoloTrace == [d \in DocIds |-> Trace(0, InitCall(d), <<>>)]

RECURSIVE Reach(_, _, _)
\* The objects a value is made of.
Reach(c, h, v) ==
    IF v.t \in Containers
    THEN {Alloc(c, v.n)} \cup
         UNION {Reach(c, h, h[Alloc(c, v.n)].vals[j]) :
                   j \in 1..Len(h[Alloc(c, v.n)].vals)}
    ELSE {}

ResultOf(c) ==
    [kind |-> calls[c].outcome.kind, msg |-> calls[c].outcome.msg,
     tree |-> Deref(c, heap, calls[c].outcome.val)]

C6_CallsIndependent ==
    /\ \A c \in Calls :
          View(c, calls[c], heap) \in SoloTrace[calls[c].doc]
    /\ \A b, c \in Calls :
          b # c /\ Ended(calls[b]) /\ Ended(calls[c]) =>
              /\ calls[b].doc = calls[c].doc => ResultOf(b) = ResultOf(c)
              /\ Reach(b, heap, calls[b].outcome.val)
                    \cap Reach(c, heap, calls[c].outcome.val) = {}

\* Two calls on a: [1, {b: 2}], c: 3 under way at once: one is filling the
\* sequence, the other has inserted its first pair.
C6_Witness ==
    \E b, c \in Calls :
        /\ b # c
        /\ Docs[calls[b].doc] = DocSequenceValue
        /\ calls[c].doc = calls[b].doc
        /\ AtSeqItem(calls[b])
        /\ Len(heap[Alloc(b, 1)].keys) = 2
        /\ AtResolveKey(calls[c])
        /\ Len(heap[Alloc(c, 1)].keys) = 1

====
